---- MODULE Spec2Model ----
(***************************************************************************)
(* A model of analysis.py: the semiconductor production analysis script.   *)
(*                                                                         *)
(* The script is a straight-line pipeline                                  *)
(*   read_data -> process_data -> visualize_data -> save_processed_data    *)
(*             -> calculate_statistics -> analyze_defective_percentage     *)
(*             -> additional_analysis                                      *)
(* over a pandas DataFrame.  A DataFrame is modelled as a record           *)
(* [kind, columns, rows], rows being a sequence of records keyed by column *)
(* name.  A CSV file is modelled as text: a sequence of lines, a line a    *)
(* sequence of cells, a cell a sequence of characters.  A float is         *)
(* modelled exactly: a finite value v is [kind |-> "num", h |-> 100 * v]   *)
(* (every float the script keeps has been rounded to 2 decimals), and the  *)
(* two IEEE specials are NaN and Inf.                                      *)
(***************************************************************************)
EXTENDS Integers, Sequences, FiniteSets, TLC

\* ------------------------------------------------------------------ bounds
\* the largest number of data rows of an input file
MaxRows == 2
\* the largest number of data rows of an input file that lacks a column
MaxLackingRows == 1

\* ------------------------------------------------------------- the values
None == [kind |-> "None"]
NaN == [kind |-> "nan"]
Inf == [kind |-> "inf"]
Num(h) == [kind |-> "num", h |-> h]

\* the threshold of analyze_defective_percentage, in percent
Threshold == 5

\* a date column holds ISO date strings; pandas sorts group keys as strings,
\* which for ISO dates is the order of this sequence
Dates == <<"2024-01-01", "2024-01-02">>

ProducedVals == {0, 16, 20}
DefectiveVals == {0, 1}
\* the (wafer_size, shift, machine_id) combinations of the plant
Cats == { <<200, "day", "M1">>, <<300, "day", "M2">>, <<300, "night", "M1">> }

InputHeader == <<"date", "produced_chips", "defective_chips",
                 "wafer_size", "shift", "machine_id">>
OutputHeader == <<"date", "produced_chips", "defective_chips",
                  "defective_percentage">>

\* ------------------------------------------------------- sequence helpers
Range(s) == { s[i] : i \in 1..Len(s) }

RECURSIVE SumSeq(_)
SumSeq(s) == IF s = <<>> THEN 0 ELSE Head(s) + SumSeq(Tail(s))

SeqsUpTo(S, n) == UNION { [1..k -> S] : k \in 0..n }

\* ----------------------------------------------------------- number text
DigitChars == <<"0", "1", "2", "3", "4", "5", "6", "7", "8", "9">>
DigitSet == Range(DigitChars)
DigitVal(c) == (CHOOSE i \in 1..10 : DigitChars[i] = c) - 1

\* str(int): the decimal digits of a non-negative integer
RECURSIVE IntToText(_)
IntToText(n) ==
    IF n < 10 THEN <<DigitChars[n + 1]>>
    ELSE Append(IntToText(n \div 10), DigitChars[(n % 10) + 1])

\* int(text): the value of a digit string
RECURSIVE TextToInt(_)
TextToInt(t) ==
    IF Len(t) = 0 THEN 0
    ELSE 10 * TextToInt(SubSeq(t, 1, Len(t) - 1)) + DigitVal(t[Len(t)])

\* repr(float) as to_csv writes it: the shortest text that reads back to the
\* same float (5.0, 6.25, 2.78); NaN is written as the empty field (na_rep
\* defaults to ''), infinity as inf
FloatToText(v) ==
    CASE v.kind = "nan" -> <<>>
      [] v.kind = "inf" -> <<"i", "n", "f">>
      [] OTHER ->
           LET whole == v.h \div 100
               frac == v.h % 100
           IN IntToText(whole) \o <<".">> \o
              (IF frac % 10 = 0 THEN <<DigitChars[(frac \div 10) + 1]>>
               ELSE <<DigitChars[(frac \div 10) + 1], DigitChars[(frac % 10) + 1]>>)

\* f"{v:.2f}": always two decimals; nan and inf by name
Format2f(v) ==
    CASE v.kind = "nan" -> <<"n", "a", "n">>
      [] v.kind = "inf" -> <<"i", "n", "f">>
      [] OTHER -> IntToText(v.h \div 100) \o <<".">> \o
                  <<DigitChars[((v.h % 100) \div 10) + 1], DigitChars[(v.h % 10) + 1]>>

\* a cell of a written CSV: strings verbatim, integers in decimal, floats by repr
CellText(x, col) ==
    CASE col \in {"date", "shift", "machine_id"} -> <<x>>
      [] col = "defective_percentage" -> FloatToText(x)
      [] OTHER -> IntToText(x)

\* read_csv's conversion of one cell: the empty field is NaN, a digit string an
\* integer, digits with a decimal point a float, inf the infinity, anything
\* else is kept as a string
IsDigits(t) == Len(t) > 0 /\ \A i \in 1..Len(t) : t[i] \in DigitSet
DotAt(t) == { i \in 1..Len(t) : t[i] = "." }
ParseCell(t) ==
    IF t = <<>> THEN NaN
    ELSE IF IsDigits(t) THEN TextToInt(t)
    ELSE IF t = <<"i", "n", "f">> THEN Inf
    ELSE IF Cardinality(DotAt(t)) = 1
            /\ IsDigits(SubSeq(t, 1, (CHOOSE i \in DotAt(t) : TRUE) - 1))
            /\ IsDigits(SubSeq(t, (CHOOSE i \in DotAt(t) : TRUE) + 1, Len(t)))
         THEN LET dot == CHOOSE i \in DotAt(t) : TRUE
                  whole == TextToInt(SubSeq(t, 1, dot - 1))
                  fr == SubSeq(t, dot + 1, Len(t))
              IN Num(100 * whole
                     + (IF Len(fr) = 1 THEN 10 * DigitVal(fr[1])
                        ELSE 10 * DigitVal(fr[1]) + DigitVal(fr[2])))
    ELSE t[1]

\* ------------------------------------------------------------- CSV files
\* A path holds no file, a file that cannot be opened or decoded, or text.
NoFile == [state |-> "missing", lines |-> <<>>]
Unreadable == [state |-> "unreadable", lines |-> <<>>]
TextFile(lines) == [state |-> "present", lines |-> lines]

HeaderLine(columns) == [j \in 1..Len(columns) |-> <<columns[j]>>]
RowLine(row, columns) == [j \in 1..Len(columns) |-> CellText(row[columns[j]], columns[j])]
IndexedHeaderLine(columns) == <<<<>>>> \o HeaderLine(columns)

\* DataFrame.to_csv(path, index=True), the pandas default: a leading index column
to_csv_index(frame) ==
    TextFile(<<IndexedHeaderLine(frame.columns)>> \o
             [i \in 1..Len(frame.rows) |->
                 <<IntToText(i - 1)>> \o RowLine(frame.rows[i], frame.columns)])

\* DataFrame.to_csv(path, index=False): the header line, then one line per row
to_csv(frame) ==
    TextFile(<<HeaderLine(frame.columns)>> \o
             [i \in 1..Len(frame.rows) |-> RowLine(frame.rows[i], frame.columns)])

Frame(columns, rows) == [kind |-> "frame", columns |-> columns, rows |-> rows]

ColumnName(cell) == IF cell = <<>> THEN "Unnamed: 0" ELSE cell[1]
ColumnIndex(columns, c) == CHOOSE j \in 1..Len(columns) : columns[j] = c

\* pd.read_csv(path): the exception it raises, or the DataFrame it returns
read_csv(f) ==
    IF f.state = "missing" THEN [exc |-> "FileNotFoundError", frame |-> None]
    ELSE IF f.state = "unreadable" THEN [exc |-> "OSError", frame |-> None]
    ELSE IF f.lines = <<>> THEN [exc |-> "EmptyDataError", frame |-> None]
    ELSE IF \E i \in 2..Len(f.lines) : Len(f.lines[i]) > Len(f.lines[1])
         THEN [exc |-> "ParserError", frame |-> None]
    ELSE LET columns == [j \in 1..Len(f.lines[1]) |-> ColumnName(f.lines[1][j])]
         IN [exc |-> "none",
             frame |-> Frame(columns,
                 [i \in 1..(Len(f.lines) - 1) |->
                     [c \in Range(columns) |->
                         ParseCell(f.lines[i + 1][ColumnIndex(columns, c)])]])]

\* read_data with the EmptyDataError handler missing
read_data_no_empty_handler(f) ==
    LET r == read_csv(f)
    IN CASE r.exc = "none" -> [ret |-> r.frame, out |-> <<>>, exc |-> "none"]
         [] r.exc = "FileNotFoundError" ->
              [ret |-> None, out |-> <<[msg |-> "Error: File not found."]>>, exc |-> "none"]
         [] r.exc = "ParserError" ->
              [ret |-> None, out |-> <<[msg |-> "Error: File could not be parsed."]>>,
               exc |-> "none"]
         [] OTHER -> [ret |-> None, out |-> <<>>, exc |-> r.exc]

\* read_data: the frame, or None with a printed message for the three
\* exceptions it catches; any other exception propagates
read_data(f) ==
    LET r == read_csv(f)
    IN CASE r.exc = "none" -> [ret |-> r.frame, out |-> <<>>, exc |-> "none"]
         [] r.exc = "FileNotFoundError" ->
              [ret |-> None, out |-> <<[msg |-> "Error: File not found."]>>, exc |-> "none"]
         [] r.exc = "EmptyDataError" ->
              [ret |-> None, out |-> <<[msg |-> "Error: File is empty."]>>, exc |-> "none"]
         [] r.exc = "ParserError" ->
              [ret |-> None, out |-> <<[msg |-> "Error: File could not be parsed."]>>,
               exc |-> "none"]
         [] OTHER -> [ret |-> None, out |-> <<>>, exc |-> r.exc]

\* ------------------------------------------------------------- arithmetic
\* Series / Series on integer columns: true division, x/0 is inf, 0/0 is nan
TrueDiv(a, b) ==
    IF b = 0 THEN (IF a = 0 THEN NaN ELSE Inf)
    ELSE [kind |-> "ratio", n |-> a, m |-> b]

Times100(v) == IF v.kind = "ratio" THEN [v EXCEPT !.n = 100 * v.n] ELSE v

\* the integer nearest to n/m, the tie going to the even one (numpy's rint)
RoundHalfEven(n, m) ==
    LET q == n \div m
        r == n % m
    IN IF 2 * r < m THEN q
       ELSE IF 2 * r > m THEN q + 1
       ELSE IF q % 2 = 0 THEN q ELSE q + 1

\* Series.round(2): nan and inf are kept
Round2(v) == IF v.kind = "ratio" THEN Num(RoundHalfEven(100 * v.n, v.m)) ELSE v

\* v > t for a float v as the script holds it and an integer t;
\* nan > t is False, inf > t is True
FloatGreater(v, t) ==
    CASE v.kind = "nan" -> FALSE
      [] v.kind = "inf" -> TRUE
      [] OTHER -> v.h > 100 * t

\* ---------------------------------------------------------------- groupby
WaferSizes == <<200, 300>>
Shifts == <<"day", "night">>
Machines == <<"M1", "M2">>
\* the values of a key column in the order pandas sorts them
KeyOrder(col) ==
    CASE col = "date" -> Dates
      [] col = "wafer_size" -> WaferSizes
      [] col = "shift" -> Shifts
      [] OTHER -> Machines

Column(rows, col) == [i \in 1..Len(rows) |-> rows[i][col]]

\* groupby(key) with sort=True: the distinct key values, ascending
GroupKeys(rows, key) ==
    LET present(k) == k \in Range(Column(rows, key))
    IN SelectSeq(KeyOrder(key), present)

\* groupby(key)[col].sum() for one key value
GroupSum(rows, key, k, col) ==
    LET member(r) == r[key] = k
    IN SumSeq(Column(SelectSeq(rows, member), col))

\* -------------------------------------------------------- the functions
HasColumns(frame, cols) == cols \subseteq Range(frame.columns)

Percentage(defective, produced) == Round2(Times100(TrueDiv(defective, produced)))

\* process_data with zero-production groups filtered out of the aggregate
process_data_drop_zero(data) ==
    LET keys == GroupKeys(data.rows, "date")
        kept(k) == GroupSum(data.rows, "date", k, "produced_chips") > 0
        ks == SelectSeq(keys, kept)
    IN Frame(OutputHeader,
             [i \in 1..Len(ks) |->
                LET produced == GroupSum(data.rows, "date", ks[i], "produced_chips")
                    defective == GroupSum(data.rows, "date", ks[i], "defective_chips")
                IN [date |-> ks[i],
                    produced_chips |-> produced,
                    defective_chips |-> defective,
                    defective_percentage |-> Percentage(defective, produced)]])

\* process_data: groupby("date").agg(sum).reset_index(), then the rounded
\* percentage column; a new frame, the argument is not written
process_data(data) ==
    LET keys == GroupKeys(data.rows, "date")
    IN Frame(OutputHeader,
             [i \in 1..Len(keys) |->
                LET produced == GroupSum(data.rows, "date", keys[i], "produced_chips")
                    defective == GroupSum(data.rows, "date", keys[i], "defective_chips")
                IN [date |-> keys[i],
                    produced_chips |-> produced,
                    defective_chips |-> defective,
                    defective_percentage |-> Percentage(defective, produced)]])

\* the delta degrees of freedom np.std passes on to Series.std (its default)
Ddof == 0

\* np.std with divisor N - ddof: the square root of
\* sum((x - mean)^2) / (N - ddof), kept as the exact fraction under the root
StdWithDdof(xs, ddof) ==
    LET N == Len(xs)
        S == SumSeq(xs)
        dev2 == SumSeq([i \in 1..N |-> (N * xs[i] - S) * (N * xs[i] - S)])
    IN IF N = 0 THEN NaN
       ELSE IF N - ddof = 0 THEN (IF dev2 = 0 THEN NaN ELSE Inf)
       ELSE [kind |-> "sqrt", n |-> dev2, m |-> N * N * (N - ddof)]

\* the sample standard deviation (Series.std's own default)
sample_std(xs) == StdWithDdof(xs, Ddof + 1)

\* np.std(series): the population standard deviation
np_std(xs) == StdWithDdof(xs, Ddof)

\* np.mean(series): sum / N, nan for no values
np_mean(xs) ==
    IF Len(xs) = 0 THEN NaN
    ELSE [kind |-> "ratio", n |-> SumSeq(xs), m |-> Len(xs)]

\* calculate_statistics: (mean, std) of the produced_chips column
calculate_statistics(grouped_data) ==
    LET xs == Column(grouped_data.rows, "produced_chips")
    IN [mean |-> np_mean(xs), std |-> np_std(xs)]

Notice(row) ==
    [msg |-> "high defective percentage", date |-> row.date,
     pct |-> Format2f(row.defective_percentage)]

\* the test of analyze_defective_percentage written as >=
IsHigh_inclusive(row) ==
    FloatGreater(row.defective_percentage, Threshold)
    \/ row.defective_percentage = Num(100 * Threshold)

\* row["defective_percentage"] > 5
IsHigh(row) == FloatGreater(row.defective_percentage, Threshold)

\* analyze_defective_percentage: the notices it prints, in iterrows order
analyze_defective_percentage(grouped_data) ==
    LET flagged == SelectSeq(grouped_data.rows, IsHigh)
    IN [i \in 1..Len(flagged) |-> Notice(flagged[i])]

AnalysisKeys == <<"wafer_size", "shift", "machine_id">>

\* a breakdown that takes each group's first record instead of the group's sums
Breakdown_first_record(rows, key) ==
    LET keys == GroupKeys(rows, key)
    IN [i \in 1..Len(keys) |->
           LET member(r) == r[key] = keys[i]
               first == Head(SelectSeq(rows, member))
           IN [key |-> keys[i],
               rate |-> Percentage(first.defective_chips, first.produced_chips)]]

\* (groupby(key)["defective_chips"].sum() / groupby(key)["produced_chips"].sum()
\*  * 100).round(2): a Series indexed by the sorted key values
Breakdown(rows, key) ==
    LET keys == GroupKeys(rows, key)
    IN [i \in 1..Len(keys) |->
           [key |-> keys[i],
            rate |-> Percentage(GroupSum(rows, key, keys[i], "defective_chips"),
                                GroupSum(rows, key, keys[i], "produced_chips"))]]

\* the analysis keys additional_analysis gets through before a KeyError
KeysDone(data) ==
    LET ok(j) == HasColumns(data, {AnalysisKeys[j], "defective_chips", "produced_chips"})
        bad == { j \in 1..Len(AnalysisKeys) : ~ok(j) }
    IN IF bad = {} THEN Len(AnalysisKeys)
       ELSE (CHOOSE j \in bad : \A k \in bad : j <= k) - 1

\* additional_analysis: three breakdowns of the raw table, each printed as it
\* is computed, then the three bar charts; a missing column raises KeyError
\* at its breakdown, after the earlier ones were printed and before any chart
additional_analysis(data) ==
    LET n == KeysDone(data)
        series == [j \in 1..n |-> [by |-> AnalysisKeys[j],
                                   series |-> Breakdown(data.rows, AnalysisKeys[j])]]
    IN [out |-> [j \in 1..n |-> [msg |-> "average defect rate", by |-> series[j].by,
                                 series |-> series[j].series]],
        charts |-> IF n = Len(AnalysisKeys)
                   THEN [j \in 1..n |-> [chart |-> "bar", by |-> series[j].by,
                                         series |-> series[j].series]]
                   ELSE <<>>,
        exc |-> IF n = Len(AnalysisKeys) THEN "none" ELSE "KeyError"]

\* ------------------------------------------------------------ the script
VARIABLES
    file,          \* what semiconductor_production.csv holds
    outfile,       \* what processed_semiconductor_production.csv holds
    data,          \* main's data: None or the raw frame
    grouped_data,  \* main's grouped_data: None or the Daily Aggregate
    stats,         \* (mean_produced_chips, std_produced_chips), None before
    console,       \* what has been printed, in order
    charts,        \* the figures shown, in order
    steps,         \* the functions main has called, in order
    pc,            \* the function main calls next, or how it ended
    reread         \* the result of reading the output file back

vars == <<file, outfile, data, grouped_data, stats, console, charts, steps, pc, reread>>

\* the main block with the file write moved ahead of the chart
Pipeline_save_before_chart ==
    <<"read_data", "process_data", "save_processed_data", "visualize_data",
      "calculate_statistics", "analyze_defective_percentage", "additional_analysis">>

\* the order of the calls in the main block
Pipeline == <<"read_data", "process_data", "visualize_data", "save_processed_data",
              "calculate_statistics", "analyze_defective_percentage",
              "additional_analysis">>

After(step) ==
    LET i == CHOOSE j \in 1..Len(Pipeline) : Pipeline[j] = step
    IN IF i = Len(Pipeline) THEN "done" ELSE Pipeline[i + 1]

\* the records a data row of the input may hold
Records ==
    { [date |-> d, produced_chips |-> p, defective_chips |-> q,
       wafer_size |-> c[1], shift |-> c[2], machine_id |-> c[3]] :
      d \in Range(Dates), p \in ProducedVals, q \in DefectiveVals, c \in Cats }

WithoutColumn(columns, col) == LET keep(c) == c # col IN SelectSeq(columns, keep)

\* headers that lack a column the script names
LackingLayouts == { WithoutColumn(InputHeader, "shift"),
                    WithoutColumn(InputHeader, "date") }

\* f is a parseable input file: a header line and a line per record
IsTableFile(f) ==
    \/ \E rows \in SeqsUpTo(Records, MaxRows) : f = to_csv(Frame(InputHeader, rows))
    \/ \E columns \in LackingLayouts, rows \in SeqsUpTo(Records, MaxLackingRows) :
          f = to_csv(Frame(columns, rows))

\* a data line with more fields than the header
MalformedFiles ==
    { TextFile(<<HeaderLine(InputHeader), RowLine(r, InputHeader) \o <<<<"x">>>> >>) :
        r \in { x \in Records : x.produced_chips = 20 /\ x.defective_chips = 1
                                /\ x.date = Dates[1] } }

ZeroByteFile == TextFile(<<>>)

\* f is something the input path may hold
IsInputFile(f) ==
    \/ f \in {NoFile, Unreadable, ZeroByteFile} \cup MalformedFiles
    \/ IsTableFile(f)

\* what the output path may hold before the run
StaleOutput ==
    to_csv(Frame(OutputHeader,
        << [date |-> "2023-12-30", produced_chips |-> 7, defective_chips |-> 1,
            defective_percentage |-> Num(1429)],
           [date |-> "2023-12-31", produced_chips |-> 0, defective_chips |-> 0,
            defective_percentage |-> NaN],
           [date |-> "2024-01-01", produced_chips |-> 50, defective_chips |-> 1,
            defective_percentage |-> Num(200)] >>))

PriorOutputs == {NoFile, StaleOutput}

Init ==
    /\ IsInputFile(file)
    /\ outfile = StaleOutput
    /\ data = None
    /\ grouped_data = None
    /\ stats = None
    /\ console = <<>>
    /\ charts = <<>>
    /\ steps = <<>>
    /\ pc = "read_data"
    /\ reread = None

\* data = read_data("semiconductor_production.csv"); if data is not None: ...
ReadData ==
    /\ pc = "read_data"
    /\ LET r == read_data(file)
       IN /\ data' = r.ret
          /\ console' = console \o r.out
          /\ pc' = IF r.exc # "none" THEN "raised"
                   ELSE IF r.ret = None THEN "skipped"
                   ELSE After("read_data")
    /\ steps' = Append(steps, "read_data")
    /\ UNCHANGED <<file, outfile, grouped_data, stats, charts, reread>>

\* process_data writing its percentage column into the raw frame as well
ProcessData_inplace ==
    /\ pc = "process_data"
    /\ steps' = Append(steps, "process_data")
    /\ IF HasColumns(data, {"date", "produced_chips", "defective_chips"})
       THEN /\ grouped_data' = process_data(data)
            /\ data' = Frame(Append(data.columns, "defective_percentage"),
                   [i \in 1..Len(data.rows) |->
                      [c \in Range(data.columns) \cup {"defective_percentage"} |->
                         IF c = "defective_percentage"
                         THEN Percentage(data.rows[i].defective_chips,
                                         data.rows[i].produced_chips)
                         ELSE data.rows[i][c]]])
            /\ pc' = After("process_data")
       ELSE /\ pc' = "raised"
            /\ UNCHANGED <<grouped_data, data>>
    /\ UNCHANGED <<file, outfile, stats, console, charts, reread>>

\* grouped_data = process_data(data); KeyError when a column it names is absent
ProcessData ==
    /\ pc = "process_data"
    /\ steps' = Append(steps, "process_data")
    /\ IF HasColumns(data, {"date", "produced_chips", "defective_chips"})
       THEN /\ grouped_data' = process_data(data)
            /\ pc' = After("process_data")
       ELSE /\ pc' = "raised"
            /\ UNCHANGED grouped_data
    /\ UNCHANGED <<file, outfile, data, stats, console, charts, reread>>

\* visualize_data(grouped_data): the line chart of the aggregate
VisualizeData ==
    /\ pc = "visualize_data"
    /\ steps' = Append(steps, "visualize_data")
    /\ charts' = Append(charts, [chart |-> "line", frame |-> grouped_data])
    /\ pc' = After("visualize_data")
    /\ UNCHANGED <<file, outfile, data, grouped_data, stats, console, reread>>

\* save_processed_data(grouped_data, "processed_semiconductor_production.csv")
SaveProcessedData ==
    /\ pc = "save_processed_data"
    /\ steps' = Append(steps, "save_processed_data")
    /\ outfile' = to_csv(grouped_data)
    /\ pc' = After("save_processed_data")
    /\ UNCHANGED <<file, data, grouped_data, stats, console, charts, reread>>

\* calculate_statistics(grouped_data) and the two prints of its result
CalculateStatistics ==
    /\ pc = "calculate_statistics"
    /\ steps' = Append(steps, "calculate_statistics")
    /\ stats' = calculate_statistics(grouped_data)
    /\ console' = console \o
          << [msg |-> "mean produced chips", value |-> calculate_statistics(grouped_data).mean],
             [msg |-> "std produced chips", value |-> calculate_statistics(grouped_data).std] >>
    /\ pc' = After("calculate_statistics")
    /\ UNCHANGED <<file, outfile, data, grouped_data, charts, reread>>

\* analyze_defective_percentage(grouped_data)
AnalyzeDefectivePercentage ==
    /\ pc = "analyze_defective_percentage"
    /\ steps' = Append(steps, "analyze_defective_percentage")
    /\ console' = console \o analyze_defective_percentage(grouped_data)
    /\ pc' = After("analyze_defective_percentage")
    /\ UNCHANGED <<file, outfile, data, grouped_data, stats, charts, reread>>

\* additional_analysis(data)
AdditionalAnalysis ==
    /\ pc = "additional_analysis"
    /\ steps' = Append(steps, "additional_analysis")
    /\ LET r == additional_analysis(data)
       IN /\ console' = console \o r.out
          /\ charts' = charts \o r.charts
          /\ pc' = IF r.exc = "none" THEN After("additional_analysis") ELSE "raised"
    /\ UNCHANGED <<file, outfile, data, grouped_data, stats, reread>>

Next ==
    \/ ReadData
    \/ ProcessData
    \/ VisualizeData
    \/ SaveProcessedData
    \/ CalculateStatistics
    \/ AnalyzeDefectivePercentage
    \/ AdditionalAnalysis

Spec == Init /\ [][Next]_vars

\* ------------------------------------------ writing and reading back
\* the aggregates process_data returns for tables of one plant line
IsRoundTripFile(f) ==
    \E rows \in SeqsUpTo({ r \in Records : r.wafer_size = WaferSizes[1] }, MaxRows) :
        f = to_csv(Frame(InputHeader, rows))

\* main just before save_processed_data
InitRT ==
    /\ IsRoundTripFile(file)
    /\ outfile \in PriorOutputs
    /\ data = read_data(file).ret
    /\ grouped_data = process_data(read_data(file).ret)
    /\ stats = None
    /\ console = <<>>
    /\ charts = <<[chart |-> "line", frame |-> process_data(read_data(file).ret)]>>
    /\ steps = <<"read_data", "process_data", "visualize_data">>
    /\ pc = "save_processed_data"
    /\ reread = None

\* read_data("processed_semiconductor_production.csv") once the file is written
ReadBack ==
    /\ pc = After("save_processed_data")
    /\ reread = None
    /\ reread' = read_data(outfile).ret
    /\ UNCHANGED <<file, outfile, data, grouped_data, stats, console, charts, steps, pc>>

NextRT ==
    \/ SaveProcessedData
    \/ ReadBack

SpecRT == InitRT /\ [][NextRT]_vars

\* ============================================================== the claims
Missing == file.state = "missing"
ZeroBytes == file.state = "present" /\ file.lines = <<>>
Unparseable ==
    /\ file.state = "present"
    /\ \E i \in 2..Len(file.lines) : Len(file.lines[i]) > Len(file.lines[1])
HeaderOnly == file.state = "present" /\ Len(file.lines) = 1

NothingDownstream ==
    /\ pc = "skipped"
    /\ data = None
    /\ grouped_data = None
    /\ stats = None
    /\ charts = <<>>
    /\ steps = <<"read_data">>
    /\ outfile \in PriorOutputs

C2_NoDataRowsIsEmptyInput ==
    (pc # "read_data" /\ (ZeroBytes \/ HeaderOnly)) =>
        /\ NothingDownstream
        /\ Len(console) = 1
        /\ console[1].msg = "Error: File is empty."

SumWhere(rows, key, k, col) ==
    LET member(r) == r[key] = k
        picked == SelectSeq(rows, member)
    IN SumSeq([i \in 1..Len(picked) |-> picked[i][col]])
Total(rows, col) == SumSeq([i \in 1..Len(rows) |-> rows[i][col]])
Aggregated == grouped_data # None

\* C3: the Daily Aggregate has exactly one row per distinct date of the input
\* (zero-sum dates included, no date twice), each row carrying the sums of its
\* date's input rows, and the produced totals of aggregate and input agree.
C3_OneRowPerDate ==
    Aggregated =>
        LET rows == grouped_data.rows
            dates == { data.rows[i].date : i \in 1..Len(data.rows) }
        IN /\ { rows[i].date : i \in 1..Len(rows) } = dates
           /\ Len(rows) = Cardinality(dates)
           /\ \A i \in 1..Len(rows) :
                /\ rows[i].produced_chips =
                     SumWhere(data.rows, "date", rows[i].date, "produced_chips")
                /\ rows[i].defective_chips =
                     SumWhere(data.rows, "date", rows[i].date, "defective_chips")
           /\ Total(rows, "produced_chips") = Total(data.rows, "produced_chips")

C3_Witness ==
    /\ Aggregated
    /\ Len(data.rows) = 2
    /\ Len(grouped_data.rows) = 1
    /\ grouped_data.rows[1].produced_chips = 36
    /\ grouped_data.rows[1].defective_chips = 2

\* v is n/m * 100 rounded to the nearest hundredth
NearestHundredth(v, n, m) ==
    /\ v.kind = "num"
    /\ 2 * (v.h * m - 10000 * n) <= m
    /\ 2 * (10000 * n - v.h * m) <= m

\* C4: every aggregate row with produced_chips > 0 has defective_percentage =
\* defective/produced*100 rounded to the nearest hundredth, and every row with
\* produced_chips = 0 has the one undefined sentinel NaN, whatever its
\* defective_chips.
C4_PercentageOrNaN ==
    Aggregated =>
        \A i \in 1..Len(grouped_data.rows) :
            LET r == grouped_data.rows[i]
            IN IF r.produced_chips > 0
               THEN NearestHundredth(r.defective_percentage,
                                     r.defective_chips, r.produced_chips)
               ELSE r.defective_percentage = NaN

Exceeds5(r) ==
    \/ r.defective_percentage.kind = "inf"
    \/ r.defective_percentage.kind = "num" /\ r.defective_percentage.h > 500
IsNotice(m) == m.msg = "high defective percentage"
Scanned == pc \in {"additional_analysis", "done"} \/ (pc = "raised" /\ Len(steps) = 7)

\* C5: analyze_defective_percentage prints one notice for exactly the aggregate
\* rows whose rounded percentage is strictly above 5.0, in the order of the
\* rows, each with its row's date and percentage; a row at exactly 5.00 and a
\* row with the NaN sentinel get none.
C5_NoticesAreRowsAbove5 ==
    Scanned =>
        LET notices == SelectSeq(console, IsNotice)
            flagged == SelectSeq(grouped_data.rows, Exceeds5)
        IN /\ Len(notices) = Len(flagged)
           /\ \A i \in 1..Len(flagged) :
                /\ notices[i].date = flagged[i].date
                /\ ParseCell(notices[i].pct) = flagged[i].defective_percentage

C5_Witness ==
    /\ Scanned
    /\ Len(SelectSeq(console, IsNotice)) = 1
    /\ Len(grouped_data.rows) = 2
    /\ grouped_data.rows[1].defective_percentage = Num(500)
    /\ grouped_data.rows[2].defective_percentage = Num(625)

IsBreakdown(m) == m.msg = "average defect rate"
Analysed == pc = "done"
KeyValues(rows, key) == { rows[i][key] : i \in 1..Len(rows) }
\* the raw table with every category column but `key` set to one value
OnlyKey(frame, key) ==
    Frame(frame.columns,
          [i \in 1..Len(frame.rows) |->
              [c \in Range(frame.columns) |->
                  IF c \in Range(AnalysisKeys) \ {key}
                  THEN KeyOrder(c)[1] ELSE frame.rows[i][c]]])

\* C6: for each of wafer_size, shift and machine_id the breakdown is taken
\* from the raw table: one entry per distinct key value, equal to the ratio of
\* the key value's defective and produced sums as a rounded percentage; the
\* per-key sums add up to the grand totals of the raw table; and a breakdown
\* is the same whatever the other two category columns hold.
C6_BreakdownsFromRawTable ==
    Analysed =>
        LET printed == SelectSeq(console, IsBreakdown)
        IN /\ Len(printed) = 3
           /\ \A j \in 1..3 :
                LET key == AnalysisKeys[j]
                    s == printed[j].series
                    P(k) == SumWhere(data.rows, key, k, "produced_chips")
                    D(k) == SumWhere(data.rows, key, k, "defective_chips")
                IN /\ printed[j].by = key
                   /\ { s[i].key : i \in 1..Len(s) } = KeyValues(data.rows, key)
                   /\ Len(s) = Cardinality(KeyValues(data.rows, key))
                   /\ \A i \in 1..Len(s) :
                        P(s[i].key) > 0 => NearestHundredth(s[i].rate, D(s[i].key), P(s[i].key))
                   /\ SumSeq([i \in 1..Len(s) |-> P(s[i].key)])
                        = Total(data.rows, "produced_chips")
                   /\ SumSeq([i \in 1..Len(s) |-> D(s[i].key)])
                        = Total(data.rows, "defective_chips")
                   /\ s = additional_analysis(OnlyKey(data, key)).out[j].series

C6_Witness ==
    /\ Analysed
    /\ Len(data.rows) = 2
    /\ data.rows[1].produced_chips = 16 /\ data.rows[1].defective_chips = 1
    /\ data.rows[2].produced_chips = 20 /\ data.rows[2].defective_chips = 0
    /\ data.rows[1].date # data.rows[2].date
    /\ Cardinality(KeyValues(data.rows, "wafer_size")) = 1
    /\ Cardinality(KeyValues(data.rows, "machine_id")) = 2

Saved == "save_processed_data" \in Range(steps)

\* C7: after save_processed_data the output file is the header line date,
\* produced_chips, defective_chips, defective_percentage followed by one line
\* per aggregate row in order, whatever it held before, and reading it back
\* gives the same rows with the same percentages, the NaN sentinel included.
C7_SaveThenReadRoundTrip ==
    /\ Saved =>
         /\ outfile.state = "present"
         /\ Len(outfile.lines) = 1 + Len(grouped_data.rows)
         /\ outfile.lines[1] = <<<<"date">>, <<"produced_chips">>, <<"defective_chips">>,
                                 <<"defective_percentage">>>>
         /\ \A i \in 1..Len(grouped_data.rows) :
              /\ Len(outfile.lines[i + 1]) = 4
              /\ outfile.lines[i + 1][1] = <<grouped_data.rows[i].date>>
              /\ TextToInt(outfile.lines[i + 1][2]) = grouped_data.rows[i].produced_chips
              /\ TextToInt(outfile.lines[i + 1][3]) = grouped_data.rows[i].defective_chips
    /\ reread # None =>
         /\ reread.columns = OutputHeader
         /\ reread.rows = grouped_data.rows

C7_Witness ==
    /\ reread # None
    /\ Len(reread.rows) = 2
    /\ reread.rows[1].defective_percentage = NaN
    /\ reread.rows[2].defective_percentage = Num(625)
    /\ Len(StaleOutput.lines) > Len(outfile.lines)

HasStats == stats # None
SumSquares(xs) == SumSeq([i \in 1..Len(xs) |-> xs[i] * xs[i]])

\* C8: for an aggregate of N >= 1 rows, calculate_statistics returns mean and
\* std with mean * N = the sum of produced_chips and std^2 * N = the sum of the
\* squared deviations from the mean (divisor N); for zero rows both are the
\* undefined value and nothing is raised.
C8_MeanAndPopulationStd ==
    HasStats =>
        LET xs == [i \in 1..Len(grouped_data.rows) |-> grouped_data.rows[i].produced_chips]
            N == Len(xs)
            S == SumSeq(xs)
        IN IF N >= 1
           THEN /\ stats.mean.kind = "ratio"
                /\ stats.mean.n * N = S * stats.mean.m
                /\ stats.std.kind = "sqrt"
                \* std^2 * N = sum (x - S/N)^2 = (N * sum x^2 - S^2) / N
                /\ stats.std.n * N * N = stats.std.m * (N * SumSquares(xs) - S * S)
           ELSE /\ stats.mean = NaN
                /\ stats.std = NaN
                /\ "calculate_statistics" \in Range(steps)
                /\ (pc = "raised" => Len(steps) = 7)

C8_Witness ==
    /\ HasStats
    /\ Len(grouped_data.rows) = 2
    /\ grouped_data.rows[1].produced_chips = 16
    /\ grouped_data.rows[2].produced_chips = 20

\* C9: once read_data has returned the raw table no later step changes it, so
\* additional_analysis sees the records process_data saw; and once process_data
\* has returned the Daily Aggregate no later step changes it.
C9_FramesNeverMutated ==
    [][ /\ (data # None => data' = data)
        /\ (grouped_data # None => grouped_data' = grouped_data) ]_vars

C9_Witness ==
    /\ pc = "done"
    /\ Len(data.rows) = 2
    /\ Len(grouped_data.rows) = 2

MainOrder == <<"read_data", "process_data", "visualize_data", "save_processed_data",
               "calculate_statistics", "analyze_defective_percentage",
               "additional_analysis">>
IsPrefix(s, t) == Len(s) <= Len(t) /\ s = SubSeq(t, 1, Len(s))

\* C10: on a loaded table main calls process_data, visualize_data,
\* save_processed_data, calculate_statistics, analyze_defective_percentage and
\* additional_analysis in that order, each at most once; the output file is
\* written only after the aggregate exists, and when additional_analysis then
\* fails the written file stays.
C10_FixedOrderWriteNotRolledBack ==
    /\ IsPrefix(steps, MainOrder)
    /\ (pc \in Range(MainOrder) => Append(steps, pc) = SubSeq(MainOrder, 1, Len(steps) + 1))
    /\ (pc = "done" => steps = MainOrder)
    /\ (outfile \notin PriorOutputs =>
          /\ Aggregated
          /\ SubSeq(steps, 1, 4) = SubSeq(MainOrder, 1, 4))
    /\ (pc = "raised" /\ steps = MainOrder =>
          /\ outfile \notin PriorOutputs
          /\ Len(outfile.lines) = 1 + Len(grouped_data.rows))

C10_Witness ==
    /\ pc = "raised"
    /\ steps = MainOrder
    /\ "wafer_size" \in Range(data.columns)
    /\ "shift" \notin Range(data.columns)
    /\ Len(outfile.lines) = 2

====
